---- MODULE Spec2Model ----
(***************************************************************************)
(* Cylindrify add-on (src/_init_.py): the per-scene settings record, the   *)
(* host objects the add-on creates and references, and its four operators  *)
(* (import, add cube, place-and-join, cylindrify) together with the edits   *)
(* a user makes to the settings between operator invocations.              *)
(*                                                                         *)
(* Lengths are Python floats in the source.  They are modelled as exact    *)
(* rationals <<n, d>> in lowest terms (d > 0), in meters.  pi is the       *)
(* rational PiNum/PiDen and asin is its cubic series rounded down to       *)
(* 1/AsinDen.  An object's geometry is its world bounding box (what         *)
(* _world_bbox returns once the host has refreshed matrix_world), its      *)
(* origin (location) and its scale.                                        *)
(***************************************************************************)
EXTENDS Integers, Sequences, FiniteSets, TLC

\* ------------------------------------------------------------------ bounds
\* objects (imported meshes and cubes) ever created in one behaviour
MaxObjs == 2
\* bend modifiers ever applied to one object
MaxBends == 1

\* ------------------------------------------------- float arithmetic (exact)
Abs(n) == IF n < 0 THEN -n ELSE n

RECURSIVE GCD(_, _)
GCD(a, b) == IF b = 0 THEN a ELSE GCD(b, a % b)

Norm(n, d) ==
    LET g == GCD(Abs(n), d)
    IN  IF g = 0 THEN <<0, 1>> ELSE <<n \div g, d \div g>>

Rat(n, d) == Norm(n, d)
Zero == <<0, 1>>
One == <<1, 1>>

RNeg(a) == <<-a[1], a[2]>>

RAdd(a, b) ==
    LET g == GCD(a[2], b[2])
    IN  Norm(a[1] * (b[2] \div g) + b[1] * (a[2] \div g), a[2] * (b[2] \div g))

RSub(a, b) == RAdd(a, RNeg(b))

RMul(a, b) ==
    LET g1 == GCD(Abs(a[1]), b[2])
        g2 == GCD(Abs(b[1]), a[2])
    IN  IF a[1] = 0 \/ b[1] = 0 THEN Zero
        ELSE <<(a[1] \div g1) * (b[1] \div g2), (a[2] \div g2) * (b[2] \div g1)>>

\* 1/a, for a # 0
RInv(a) == IF a[1] > 0 THEN <<a[2], a[1]>> ELSE <<-a[2], -a[1]>>

RDiv(a, b) == RMul(a, RInv(b))

\* a - b on the common denominator, numerator only: its sign orders a and b
Diff(a, b) ==
    LET g == GCD(a[2], b[2])
    IN  a[1] * (b[2] \div g) - b[1] * (a[2] \div g)

RLt(a, b) == Diff(a, b) < 0
RLe(a, b) == Diff(a, b) <= 0
RMin(a, b) == IF RLt(b, a) THEN b ELSE a
RMax(a, b) == IF RLt(a, b) THEN b ELSE a
RAbs(a) == <<Abs(a[1]), a[2]>>

\* math.pi
PiNum == 22
PiDen == 7
pi == Rat(PiNum, PiDen)

\* math.radians, kept in degrees: the model's angles are whole degrees
HalfTurn == 180

\* math.asin on [0, 1): x + x^3/6, the cubic term rounded down to 1/AsinDen
AsinDen == 10000
asin(x) ==
    LET k1 == (x[1] * AsinDen) \div x[2]
        k2 == (k1 * x[1]) \div x[2]
        k3 == (k2 * x[1]) \div x[2]
    IN  RAdd(x, Rat(k3 \div 6, AsinDen))

\* ----------------------------------------------------------------- helpers
MetersPerMmDen == 1000
MetersPerCmDen == 100

\* variant: centimeters divided like millimeters
to_meters_cm_as_mm(value, unit) ==
    IF unit = "mm" \/ unit = "cm" THEN RDiv(value, Rat(MetersPerMmDen, 1))
    ELSE value

to_meters(value, unit) ==
    IF unit = "mm" THEN RDiv(value, Rat(MetersPerMmDen, 1))
    ELSE IF unit = "cm" THEN RDiv(value, Rat(MetersPerCmDen, 1))
    ELSE value

\* c = 0; for p in coords: c += p   (the 8 corners)
RSum(s) ==
    RAdd(RAdd(RAdd(s[1], s[2]), RAdd(s[3], s[4])),
         RAdd(RAdd(s[5], s[6]), RAdd(s[7], s[8])))

\* min(...) and max(...) of a list of floats
RMinSeq(s) ==
    LET S == {s[k] : k \in 1..Len(s)}
    IN  CHOOSE x \in S : \A y \in S : RLe(x, y)

RMaxSeq(s) ==
    LET S == {s[k] : k \in 1..Len(s)}
    IN  CHOOSE x \in S : \A y \in S : RLe(y, x)

\* obj.matrix_world @ corner, for the 8 corners of obj.bound_box
world_bbox(obj) ==
    LET lo == obj.bb.min
        hi == obj.bb.max
    IN  << <<lo[1], lo[2], lo[3]>>, <<lo[1], lo[2], hi[3]>>,
           <<lo[1], hi[2], hi[3]>>, <<lo[1], hi[2], lo[3]>>,
           <<hi[1], lo[2], lo[3]>>, <<hi[1], lo[2], hi[3]>>,
           <<hi[1], hi[2], hi[3]>>, <<hi[1], hi[2], lo[3]>> >>

Coord(coords, i) == [k \in 1..Len(coords) |-> coords[k][i]]

world_bbox_min_max_z(obj) ==
    LET zs == Coord(world_bbox(obj), 3)
    IN  <<RMinSeq(zs), RMaxSeq(zs)>>

CornerCount == 8

world_bbox_center_xy(obj) ==
    LET coords == world_bbox(obj)
    IN  <<RDiv(RSum(Coord(coords, 1)), Rat(CornerCount, 1)),
          RDiv(RSum(Coord(coords, 2)), Rat(CornerCount, 1))>>

world_bbox_size(obj) ==
    LET coords == world_bbox(obj)
        xs == Coord(coords, 1)
        ys == Coord(coords, 2)
        zs == Coord(coords, 3)
    IN  <<RSub(RMaxSeq(xs), RMinSeq(xs)),
          RSub(RMaxSeq(ys), RMinSeq(ys)),
          RSub(RMaxSeq(zs), RMinSeq(zs))>>

VAdd(a, b) == <<RAdd(a[1], b[1]), RAdd(a[2], b[2]), RAdd(a[3], b[3])>>

\* obj.location += (dx, dy, dz); the object has no parent, so its world
\* bounding box moves by the same vector once matrix_world is refreshed
move_by(obj, dx, dy, dz) ==
    LET d == <<dx, dy, dz>>
    IN  [obj EXCEPT !.loc = VAdd(@, d),
                    !.bb = [min |-> VAdd(@.min, d), max |-> VAdd(@.max, d)]]

\* _ensure_subsurf followed by _apply_modifiers: a SIMPLE subdivision adds
\* vertices on the existing faces and leaves the bounding box as it is
ensure_subsurf(obj, levels) ==
    [obj EXCEPT !.subd = IF levels < 1 THEN 1 ELSE levels]

\* ------------------------------------------------------------------- state
VARIABLES
    props,      \* context.scene.cylsvg_props (CYLSVG_Props)
    objs,       \* the objects of bpy.data.objects the add-on can still reach
                \* (through flat_obj, cube_obj or the active object): id -> object
    active,     \* context.view_layer.objects.active (None is 0)
    created,    \* objects created so far; the next object's id is created + 1
    last        \* the last operator invoked, what it returned and what it did

vars == <<props, objs, active, created, last>>

None == 0

Units == {"mm", "cm", "m"}

\* values the user types into the dimension fields (all >= the fields' min 0.0)
OuterValues == {Rat(2, 1), Rat(3, 1)}
InnerValues == {Rat(1, 1), Rat(3, 1)}
HeightValues == {Rat(4, 1)}

\* the files handed to the import operator: one the importer rejects, one
\* that holds no curve, and drawings with planar extent [x0, x0+w] x [y0, y0+h]
\* whose centre of volume lies ox to the side of the bounding box centre
NoDrawing == [x0 |-> Zero, w |-> Zero, y0 |-> Zero, h |-> Zero, ox |-> Zero]
Drawing(x0, w, ox) ==
    [kind |-> "svg", x0 |-> x0, w |-> w, y0 |-> Rat(1, 100), h |-> Rat(1, 250), ox |-> ox]
Files ==
    { [kind |-> "cancelled"] @@ NoDrawing,
      [kind |-> "empty"] @@ NoDrawing,
      Drawing(Zero, Zero, Zero),
      Drawing(Rat(1, 1000), Rat(1, 200), Rat(1, 2000)) }

ThkDefault == 2
SubdivDefault == 7

\* what an operator hands back: the set it returns, the level of its report,
\* and (for the checks) the object it worked on and the values it computed
Ret(op, status, target) ==
    [op |-> op, status |-> status,
     report |-> IF status = "CANCELLED" THEN "ERROR"
                ELSE IF status = "FINISHED" THEN "INFO" ELSE "none",
     target |-> target,
     scaled |-> FALSE, factor |-> One, R |-> Zero, flat |-> <<>>, cube |-> <<>>]

\* variant: the error path returns FINISHED
cancelled_returns_finished(op) == Ret(op, "FINISHED", None)

\* self.report({'ERROR'}, ...); return {'CANCELLED'}
cancelled(op) == Ret(op, "CANCELLED", None)

Init ==
    /\ props = [flat_obj |-> None, cube_obj |-> None, svg_orig_x |-> Zero,
                thk_value |-> Rat(ThkDefault, 1), thk_unit |-> "mm",
                cyl_outer_r |-> Rat(3, 1), cyl_inner_r |-> Rat(1, 1),
                cyl_height |-> Rat(4, 1), cyl_unit |-> "mm",
                cyl_subdiv |-> SubdivDefault,
                preserve_apparent_width |-> TRUE]
    /\ objs = <<>>
    /\ active = None
    /\ created = 0
    /\ last = Ret("none", "none", None)

\* ------------------------------------------------------ edits in the panel
SetOuter ==
    \E v \in OuterValues :
        /\ props' = [props EXCEPT !.cyl_outer_r = v]
        /\ last' = Ret("edit", "none", None)
        /\ UNCHANGED <<objs, active, created>>

SetInner ==
    \E v \in InnerValues :
        /\ props' = [props EXCEPT !.cyl_inner_r = v]
        /\ last' = Ret("edit", "none", None)
        /\ UNCHANGED <<objs, active, created>>

SetHeight ==
    \E v \in HeightValues :
        /\ props' = [props EXCEPT !.cyl_height = v]
        /\ last' = Ret("edit", "none", None)
        /\ UNCHANGED <<objs, active, created>>

SetUnit ==
    \E u \in Units :
        /\ props' = [props EXCEPT !.cyl_unit = u]
        /\ last' = Ret("edit", "none", None)
        /\ UNCHANGED <<objs, active, created>>

SetPreserve ==
    \E b \in BOOLEAN :
        /\ props' = [props EXCEPT !.preserve_apparent_width = b]
        /\ last' = Ret("edit", "none", None)
        /\ UNCHANGED <<objs, active, created>>

\* --------------------------------------------------------------- operators
\* An operator reaches an object only through props.flat_obj, props.cube_obj or
\* the active object; the other objects of the scene are never read again.
Reachable(o, p, a) == [i \in DOMAIN o \cap {p.flat_obj, p.cube_obj, a} |-> o[i]]

FlatSubdLevels == 4

NewObject(name, loc, scale, bb) ==
    [name |-> name, loc |-> loc, scale |-> scale, bb |-> bb,
     subd |-> 0, bend |-> 0, bends |-> 0, parts |-> 0, outer |-> Zero]

\* CYLSVG_OT_ImportSVG.execute
\* (the handler's statements in order; a singleton \E binds a statement's result)
ImportSVG ==
    \E file \in Files :
        IF file.kind = "cancelled" \/ file.kind = "empty"
        THEN /\ last' = cancelled("import_svg")
             /\ UNCHANGED <<props, objs, active, created>>
        ELSE
            \* the imported curves lie in the plane z = 0 with the object's
            \* origin at the world origin; converted to a mesh, joined,
            \* turned 180 degrees about Y and the rotation applied
            \E planar \in {NewObject("SVG_Flat", <<Zero, Zero, Zero>>, <<One, One, One>>,
                            [min |-> <<RNeg(RAdd(file.x0, file.w)), file.y0, Zero>>,
                             max |-> <<RNeg(file.x0), RAdd(file.y0, file.h), Zero>>])} :
            \E orig_x \in {world_bbox_size(planar)[1]} :
            \* Solidify: the planar mesh is extruded along its normal (Z)
            \E thickness \in {to_meters(props.thk_value, props.thk_unit)} :
            \E solid \in {[planar EXCEPT !.bb.max[3] = RAdd(@, thickness)]} :
            \E subdivided \in {ensure_subsurf(solid, FlatSubdLevels)} :
            \* origin_set(ORIGIN_CENTER_OF_VOLUME): the mesh stays, the origin moves
            \E flat \in {[subdivided EXCEPT !.loc =
                           <<RAdd(RMul(Rat(1, 2), RAdd(subdivided.bb.min[1], subdivided.bb.max[1])), file.ox),
                             RMul(Rat(1, 2), RAdd(subdivided.bb.min[2], subdivided.bb.max[2])),
                             RMul(Rat(1, 2), RAdd(subdivided.bb.min[3], subdivided.bb.max[3]))>>]} :
                /\ created < MaxObjs
                /\ created' = created + 1
                /\ active' = created'
                /\ props' = [props EXCEPT !.svg_orig_x = orig_x, !.flat_obj = created']
                /\ objs' = Reachable((created' :> flat) @@ objs, props', active')
                /\ last' = Ret("import_svg", "FINISHED", created')

\* variant: only inner > outer is rejected
radii_rejected_strict(inner, outer) == RLt(outer, inner)

\* if inner >= outer
radii_rejected(inner, outer) == RLe(outer, inner)

\* Map cylinder -> cube: X circumference, Y height, Z wall thickness
cube_dimensions(outer, inner, height) ==
    <<RMul(RMul(Rat(2, 1), pi), outer), height, RSub(outer, inner)>>

\* CYLSVG_OT_AddCubeFromCylinder.execute
\* (the handler's statements in order; a singleton \E binds a statement's result)
AddCubeFromCylinder ==
    \E outer \in {to_meters(props.cyl_outer_r, props.cyl_unit)} :
    \E inner \in {to_meters(props.cyl_inner_r, props.cyl_unit)} :
    \E height \in {to_meters(props.cyl_height, props.cyl_unit)} :
        IF radii_rejected(inner, outer)
        THEN /\ last' = cancelled("add_cube_from_cyl")
             /\ UNCHANGED <<props, objs, active, created>>
        ELSE
            \E dims \in {cube_dimensions(outer, inner, height)} :
            \* primitive_cube_add(size=1.0, location=(0,0,0)), then
            \* cube.dimensions = (X, Y, Z): the unit cube is scaled
            \E cube \in {[NewObject("CYLSVG_Cube", <<Zero, Zero, Zero>>, dims,
                            [min |-> [i \in 1..3 |-> RNeg(RMul(Rat(1, 2), dims[i]))],
                             max |-> [i \in 1..3 |-> RMul(Rat(1, 2), dims[i])]])
                          EXCEPT !.outer = outer]} :
                /\ created < MaxObjs
                /\ created' = created + 1
                /\ active' = created'
                /\ props' = [props EXCEPT !.cube_obj = created']
                /\ objs' = Reachable((created' :> ensure_subsurf(cube, props.cyl_subdiv)) @@ objs,
                                     props', active')
                /\ last' = Ret("add_cube_from_cyl", "FINISHED", created')

\* flat.scale.x *= f, then view_layer.update(): the mesh is scaled about the
\* object's origin
scale_x(obj, f) ==
    LET x0 == obj.loc[1]
        sx(x) == RAdd(x0, RMul(f, RSub(x, x0)))
        a == sx(obj.bb.min[1])
        b == sx(obj.bb.max[1])
    IN  [obj EXCEPT !.scale[1] = RMul(@, f),
                    !.bb.min[1] = RMin(a, b),
                    !.bb.max[1] = RMax(a, b)]

\* bpy.ops.object.join() with the cube active: the flat mesh's geometry becomes
\* part of the cube's mesh, the cube keeps its own transform, the flat object
\* is removed
join(cube, flat) ==
    [cube EXCEPT !.bb = [min |-> [i \in 1..3 |-> RMin(cube.bb.min[i], flat.bb.min[i])],
                         max |-> [i \in 1..3 |-> RMax(cube.bb.max[i], flat.bb.max[i])]],
                 !.parts = @ + 1]

\* variant: the flat-mesh reference is not cleared
after_join_keeps_flat(p, a) == [p EXCEPT !.cube_obj = a]

\* p.flat_obj = None; p.cube_obj = context.view_layer.objects.active
after_join(p, a) == [p EXCEPT !.flat_obj = None, !.cube_obj = a]

\* variant: the radius in place of the diameter in front of asin
L_target_radius(W_orig, R) ==
    RMul(R, asin(RDiv(W_orig, RMul(Rat(2, 1), R))))

\* the arc length whose chord is W_orig on a circle of radius R
L_target(W_orig, R) ==
    RMul(RMul(Rat(2, 1), R), asin(RDiv(W_orig, RMul(Rat(2, 1), R))))

\* variant: no guard that the chord stays below the diameter
precompress_any_chord(p, R, cur_X) ==
    /\ p.preserve_apparent_width
    /\ RLt(Zero, p.svg_orig_x)
    /\ RLt(Zero, R)
    /\ RLt(Zero, cur_X)

\* the guards around flat.scale.x *= (L_target / cur_X)
precompress(p, R, cur_X) ==
    /\ p.preserve_apparent_width
    /\ RLt(Zero, p.svg_orig_x)
    /\ RLt(p.svg_orig_x, RMul(Rat(2, 1), R))
    /\ RLt(Zero, R)
    /\ RLt(Zero, cur_X)

\* variant: the cube's bottom in place of its top
sit_on_bottom_dz(cube, flat) ==
    RSub(world_bbox_min_max_z(cube)[1], world_bbox_min_max_z(flat)[1])

\* "Sit on top Z": the distance the flat mesh is raised
sit_on_top_dz(cube, flat) ==
    RSub(world_bbox_min_max_z(cube)[2], world_bbox_min_max_z(flat)[1])

\* CYLSVG_OT_PlaceSvgOnCubeTopJoin.execute
\* (the handler's statements in order; a singleton \E binds a statement's result)
PlaceSvgOnCubeTopJoin ==
    IF props.flat_obj = None \/ props.cube_obj = None
    THEN /\ last' = cancelled("place_svg_on_cube_join")
         /\ UNCHANGED <<props, objs, active, created>>
    ELSE
        \E flat0 \in {objs[props.flat_obj]}, cube \in {objs[props.cube_obj]} :
        \E R \in {to_meters(props.cyl_outer_r, props.cyl_unit)} :
        \E cur_X \in {world_bbox_size(flat0)[1]} :
        \E pre \in {precompress(props, R, cur_X)} :
        \E factor \in {IF pre THEN RDiv(L_target(props.svg_orig_x, R), cur_X) ELSE One} :
        \E flat1 \in {IF pre THEN scale_x(flat0, factor) ELSE flat0} :
        \* align XY centers
        \E c \in {world_bbox_center_xy(cube)}, s \in {world_bbox_center_xy(flat1)} :
        \E flat2 \in {move_by(flat1, RSub(c[1], s[1]), RSub(c[2], s[2]), Zero)} :
        \* sit on top Z; matrix_world of the flat mesh has not been refreshed
        \* since the XY move, so its bounding box is read as it was before
        \E dz \in {sit_on_top_dz(cube, flat1)} :
        \E flat3 \in {move_by(flat2, Zero, Zero, dz)} :
        \E joined \in {join(cube, flat3)} :
            /\ active' = props.cube_obj
            /\ props' = after_join(props, active')
            /\ objs' = Reachable([i \in DOMAIN objs \ {props.flat_obj} |->
                                     IF i = props.cube_obj THEN joined ELSE objs[i]],
                                 props', active')
            /\ last' = [Ret("place_svg_on_cube_join", "FINISHED", props.cube_obj)
                          EXCEPT !.scaled = pre, !.factor = factor,
                                 !.R = R, !.flat = <<flat3>>, !.cube = <<cube>>]
            /\ UNCHANGED created

BendDegrees == 361

\* obj.rotation_euler.x += radians(90), then transform_apply(location, rotation,
\* scale): the mesh is turned a quarter about X through the object's origin,
\* (x, y, z) -> (x, -z, y), and the transform is reset to the identity
rotate_x_apply(obj) ==
    LET o == obj.loc
        lo == obj.bb.min
        hi == obj.bb.max
    IN  [obj EXCEPT !.loc = <<Zero, Zero, Zero>>,
                    !.scale = <<One, One, One>>,
                    !.bb = [min |-> <<lo[1], RSub(o[2], RSub(hi[3], o[3])),
                                      RAdd(o[3], RSub(lo[2], o[2]))>>,
                            max |-> <<hi[1], RSub(o[2], RSub(lo[3], o[3])),
                                      RAdd(o[3], RSub(hi[2], o[2]))>>]]

\* a mesh coordinate as the host stores it: a float of finite precision, kept
\* here to (about) 1/MeshDen, rounded down; returned in units of 1/MeshDen
MeshDen == 10000
to_mesh(a) ==
    LET q == a[1] \div a[2]
        r == a[1] % a[2]
        k == (a[2] \div MeshDen) + 1
    IN  q * MeshDen + (((r \div k) * MeshDen) \div (a[2] \div k))

\* variant: one degree less
bend_factor_less == BendDegrees - 1

\* mod.factor = radians(361.0), in degrees
bend_factor == BendDegrees

\* SIMPLE_DEFORM, BEND about Z by `degrees`, applied: the angle is spread over
\* the mesh's X extent, so the mesh wraps a circle of radius extent/angle whose
\* centre lies that far along +Y; a wrap of a full turn or more fills the ring
bend(obj, degrees) ==
    LET xlo == to_mesh(obj.bb.min[1])
        xhi == to_mesh(obj.bb.max[1])
        ylo == to_mesh(obj.bb.min[2])
        yhi == to_mesh(obj.bb.max[2])
        radius == ((xhi - xlo) * HalfTurn * PiDen) \div (degrees * PiNum)
        a == Abs(radius - ylo)
        b == Abs(radius - yhi)
        rho == IF a < b THEN b ELSE a
    IN  [obj EXCEPT !.bb.min[1] = Rat(-rho, MeshDen),
                    !.bb.max[1] = Rat(rho, MeshDen),
                    !.bb.min[2] = Rat(radius - rho, MeshDen),
                    !.bb.max[2] = Rat(radius + rho, MeshDen),
                    !.bend = degrees,
                    !.bends = @ + 1]

\* variant: always the active object
cylindrify_target_active(p, a) == a

\* obj = p.cube_obj or context.active_object
cylindrify_target(p, a) == IF p.cube_obj # None THEN p.cube_obj ELSE a

\* CYLSVG_OT_Cylindrify.execute
\* (the handler's statements in order; a singleton \E binds a statement's result)
Cylindrify ==
    \E obj \in {cylindrify_target(props, active)} :
        IF obj = None
        THEN /\ last' = cancelled("cylindrify")
             /\ UNCHANGED <<props, objs, active, created>>
        ELSE
            \E turned \in {rotate_x_apply(objs[obj])} :
            \E bent \in {bend(turned, bend_factor)} :
                /\ objs[obj].bends < MaxBends
                /\ active' = obj
                /\ objs' = Reachable([objs EXCEPT ![obj] = bent], props, active')
                /\ last' = Ret("cylindrify", "FINISHED", obj)
                /\ UNCHANGED <<props, created>>

Next ==
    \/ SetOuter
    \/ SetInner
    \/ SetHeight
    \/ SetUnit
    \/ SetPreserve
    \/ ImportSVG
    \/ AddCubeFromCylinder
    \/ PlaceSvgOnCubeTopJoin
    \/ Cylindrify

Spec == Init /\ [][Next]_vars

\* ------------------------------------------------------------- properties
\* a setting in meters, stated from the unit selector's meaning
InMeters(value, unit) ==
    CASE unit = "mm" -> Rat(value[1], value[2] * 1000)
      [] unit = "cm" -> Rat(value[1], value[2] * 100)
      [] unit = "m" -> value

Finished(op) == last.op = op /\ last.status = "FINISHED"

\* 2R*asin(W/(2R))
ArcForChord(W, R) ==
    RMul(RMul(Rat(2, 1), R), asin(RDiv(W, RMul(Rat(2, 1), R))))

BoxCenter(o, i) == RMul(Rat(1, 2), RAdd(o.bb.min[i], o.bb.max[i]))

\* C1: when add-cube finishes, the cube it created measures X = 2*pi*outer,
\* Y = height, Z = outer - inner, with outer, inner and height the settings
\* converted to meters by cyl_unit, and inner < outer.
C1_CubeDimensions ==
    Finished("add_cube_from_cyl") =>
        LET outer == InMeters(props.cyl_outer_r, props.cyl_unit)
            inner == InMeters(props.cyl_inner_r, props.cyl_unit)
            height == InMeters(props.cyl_height, props.cyl_unit)
        IN  /\ last.target = props.cube_obj
            /\ RLt(inner, outer)
            /\ world_bbox_size(objs[props.cube_obj]) =
                   <<RMul(Rat(2 * PiNum, PiDen), outer), height, RSub(outer, inner)>>

C1_Witness ==
    /\ Finished("add_cube_from_cyl")
    /\ props.cyl_unit = "cm"
    /\ props.cyl_inner_r = Rat(1, 1)

\* C2 as stated: whenever place-and-join pre-compresses, the factor is
\* 2R*asin(W/(2R)) / W with W = svg_orig_x and R the outer radius in meters.
C2_FactorFromOriginalWidth ==
    (Finished("place_svg_on_cube_join") /\ last.scaled) =>
        LET W == props.svg_orig_x
            R == InMeters(props.cyl_outer_r, props.cyl_unit)
        IN  last.factor = RDiv(ArcForChord(W, R), W)

\* C2 amended: whenever place-and-join pre-compresses, the factor is
\* 2R*asin(W/(2R)) divided by the flat mesh's current X extent, so the mesh's
\* X extent becomes 2R*asin(W/(2R)); the factor is 2R*asin(W/(2R)) / W when
\* the flat mesh has not been bent by cylindrify since its import.
C2_FactorFromCurrentWidth ==
    (Finished("place_svg_on_cube_join") /\ last.scaled) =>
        LET W == props.svg_orig_x
            R == InMeters(props.cyl_outer_r, props.cyl_unit)
            flat == last.flat[1]
        IN  /\ RSub(flat.bb.max[1], flat.bb.min[1]) = ArcForChord(W, R)
            /\ flat.bends = 0 => last.factor = RDiv(ArcForChord(W, R), W)

C2_Witness ==
    /\ Finished("place_svg_on_cube_join")
    /\ last.scaled
    /\ last.factor # One
    /\ last.flat[1].bends = 0

C6_FlatOnCubeTop ==
    Finished("place_svg_on_cube_join") =>
        LET flat == last.flat[1]
            cube == last.cube[1]
        IN  /\ BoxCenter(flat, 1) = BoxCenter(cube, 1)
            /\ BoxCenter(flat, 2) = BoxCenter(cube, 2)
            /\ flat.bb.min[3] = cube.bb.max[3]
            /\ objs[props.cube_obj].loc = cube.loc
            /\ objs[props.cube_obj].scale = cube.scale

C6_Witness ==
    /\ Finished("place_svg_on_cube_join")
    /\ last.scaled
    /\ last.flat[1].loc[1] # Zero
    /\ last.flat[1].bb.min[3] # Zero

\* C7: place-and-join invoked with flat_obj or cube_obj empty reports an error,
\* returns CANCELLED and changes neither the settings nor any object; a
\* place-and-join right after a finished one is cancelled.
C7_CancelledWithoutRefs ==
    [][(last'.op = "place_svg_on_cube_join"
          /\ (props.flat_obj = None \/ props.cube_obj = None
                \/ Finished("place_svg_on_cube_join"))) =>
         /\ last'.status = "CANCELLED"
         /\ last'.report = "ERROR"
         /\ props' = props
         /\ objs' = objs
         /\ active' = active]_vars

C7_Witness ==
    /\ last.op = "place_svg_on_cube_join"
    /\ last.status = "CANCELLED"
    /\ props.flat_obj = None
    /\ props.cube_obj # None
    /\ objs[props.cube_obj].parts > 0

\* C8: add-cube invoked with inner >= outer (in meters) reports an error,
\* returns CANCELLED, creates no cube and leaves cube_obj as it is; a cube the
\* operator creates has wall thickness Z > 0.
C8_RejectsInnerNotBelowOuter ==
    /\ [][(last'.op = "add_cube_from_cyl"
             /\ RLe(InMeters(props.cyl_outer_r, props.cyl_unit),
                    InMeters(props.cyl_inner_r, props.cyl_unit))) =>
            /\ last'.status = "CANCELLED"
            /\ last'.report = "ERROR"
            /\ created' = created
            /\ objs' = objs
            /\ props' = props]_vars
    /\ [](Finished("add_cube_from_cyl") =>
            LET cube == objs[last.target]
            IN  RLt(Zero, RSub(cube.bb.max[3], cube.bb.min[3])))

C8_Witness ==
    /\ last.op = "add_cube_from_cyl"
    /\ last.status = "CANCELLED"
    /\ props.cyl_inner_r = props.cyl_outer_r
    /\ props.cube_obj # None

\* C9: a place-and-join that finds both references set changes the flat mesh's
\* X scale only when preserve_apparent_width is set, W > 0, R > 0, W < 2R and
\* the mesh's current X extent is > 0; otherwise the scale stays; either way the
\* mesh is aligned, joined and FINISHED is returned.
C9_ScalesOnlyUnderGuards ==
    [][(last'.op = "place_svg_on_cube_join"
          /\ props.flat_obj # None /\ props.cube_obj # None) =>
         /\ last'.status = "FINISHED"
         /\ LET flat0 == objs[props.flat_obj]
                flat3 == last'.flat[1]
                W == props.svg_orig_x
                R == InMeters(props.cyl_outer_r, props.cyl_unit)
                guards == /\ props.preserve_apparent_width
                          /\ RLt(Zero, W)
                          /\ RLt(Zero, R)
                          /\ RLt(W, RMul(Rat(2, 1), R))
                          /\ RLt(Zero, RSub(flat0.bb.max[1], flat0.bb.min[1]))
            IN  /\ ~guards => flat3.scale = flat0.scale
                /\ flat3.scale # flat0.scale => guards
                /\ BoxCenter(flat3, 1) = BoxCenter(objs[props.cube_obj], 1)
                /\ props.flat_obj \notin DOMAIN objs'
                /\ objs'[props.cube_obj].parts = objs[props.cube_obj].parts + 1]_vars

C9_Witness ==
    /\ Finished("place_svg_on_cube_join")
    /\ ~last.scaled
    /\ props.preserve_apparent_width
    /\ RLt(Zero, props.svg_orig_x)

\* C10: whenever place-and-join pre-compresses, the radius R it uses is the
\* outer radius (in meters) from which the cube referenced by cube_obj was built.
C10_RadiusOfTheCube ==
    (Finished("place_svg_on_cube_join") /\ last.scaled) =>
        last.R = last.cube[1].outer
====
